---- MODULE Spec2Model ----
(***************************************************************************)
(* ci-diff-helper: the Kokoro and AppVeyor configuration objects.          *)
(*                                                                         *)
(* A configuration object is a memoizing facade over the process           *)
(* environment (os.environ) and, for Kokoro, one remote call               *)
(* (_github.pr_info).  Under Spec every property access is one atomic     *)
(* step: the whole getter runs, including the getters it calls.  Under     *)
(* SpecThreads the provider and slug getters are split into their steps    *)
(* and run by threads that share one instance.                             *)
(*                                                                         *)
(* Python text is modelled as a sequence of one-character strings, so      *)
(* that startswith, `in`, split, re.sub and int() are computed on the      *)
(* characters.  Python values are tagged records, so that None, the UNSET  *)
(* sentinel, integers, strings, enum members and dicts are all comparable. *)
(***************************************************************************)
EXTENDS Integers, Sequences, FiniteSets, TLC

VARIABLES
    environ,    \* os.environ: a function from the names present to their text
    config,     \* the class of the configuration object: "Kokoro" / "AppVeyor"
    self,       \* the instance's cache slots
    last,       \* the latest step: which property was read and what came out
    fetches,    \* every call of _github.pr_info so far: arguments and outcome
    writesLeft, \* how many more times the process may rewrite its environment
    threads     \* the threads that share the instance: where each one stands
                \* inside the getter it is running, and its local values

vars == <<environ, config, self, last, fetches, writesLeft, threads>>

----------------------------------------------------------------------------
(* Bounds of the model. *)

\* A process that rewrites its environment (a test that patches os.environ
\* between two accesses) does so at most this many times.
MaxEnvWrites == 1

\* _github.pr_info is called at most this many times on one instance.
MaxFetches == 2

\* In the threaded runs, each thread reads at most this many properties.
MaxAccesses == 2

----------------------------------------------------------------------------
(* Python values. *)

UNSET == [tag |-> "UNSET"]

None == [tag |-> "None"]

StrVal(s) == [tag |-> "str", v |-> s]

IntVal(n) == [tag |-> "int", v |-> n]

BoolVal(b) == [tag |-> "bool", v |-> b]

ListVal(items) == [tag |-> "list", v |-> items]

\* A dict is its set of <<key, value>> items.
Dict(items) == [tag |-> "dict", v |-> items]

HasKey(d, k) == \E it \in d.v : it[1] = k

GetItem(d, k) == (CHOOSE it \in d.v : it[1] = k)[2]

\* The outcome of a call: a returned value, or a raised exception with its
\* arguments.  `kind` names which raise statement it was.
Return(val) == [ok |-> TRUE, val |-> val, exc |-> "", kind |-> "", args |-> <<>>]

Raise(exc, kind, args) == [ok |-> FALSE, val |-> None, exc |-> exc, kind |-> kind, args |-> args]

----------------------------------------------------------------------------
(* Text. *)

StartsWith(s, p) == Len(p) <= Len(s) /\ SubSeq(s, 1, Len(p)) = p

\* Python's `sub in s`.
Contains(s, sub) == \E i \in 1..(Len(s) - Len(sub) + 1) : SubSeq(s, i, i + Len(sub) - 1) = sub

\* The index of the first occurrence of sub in s (sub occurs in s).
FirstIndex(s, sub) == CHOOSE i \in 1..(Len(s) - Len(sub) + 1) : /\ SubSeq(s, i, i + Len(sub) - 1) = sub
                                                                /\ \A j \in 1..(i - 1) : SubSeq(s, j, j + Len(sub) - 1) # sub

\* s.split(sep, 1): at most one split, at the first occurrence of sep.
Split1(s, sep) == IF Contains(s, sep)
                  THEN LET i == FirstIndex(s, sep)
                       IN <<SubSeq(s, 1, i - 1), SubSeq(s, i + Len(sep), Len(s))>>
                  ELSE <<s>>

Digits == {"0", "1", "2", "3", "4", "5", "6", "7", "8", "9"}

DigitValue(c) == CASE c = "0" -> 0 [] c = "1" -> 1 [] c = "2" -> 2 [] c = "3" -> 3 [] c = "4" -> 4
                   [] c = "5" -> 5 [] c = "6" -> 6 [] c = "7" -> 7 [] c = "8" -> 8 [] c = "9" -> 9

Whitespace == {" ", "\t", "\n"}

RECURSIVE LStrip(_)
LStrip(s) == IF s # <<>> /\ Head(s) \in Whitespace THEN LStrip(Tail(s)) ELSE s

RECURSIVE RStrip(_)
RStrip(s) == IF s # <<>> /\ s[Len(s)] \in Whitespace THEN RStrip(SubSeq(s, 1, Len(s) - 1)) ELSE s

RECURSIVE DecimalValue(_)
DecimalValue(ds) == IF ds = <<>> THEN 0
                    ELSE 10 * DecimalValue(SubSeq(ds, 1, Len(ds) - 1)) + DigitValue(ds[Len(ds)])

\* int(text): surrounding whitespace is stripped, one sign is allowed, and at
\* least one decimal digit must follow; anything else raises ValueError.
IntBody(s) == LET t == RStrip(LStrip(s))
              IN IF t # <<>> /\ Head(t) \in {"+", "-"} THEN Tail(t) ELSE t

IntSign(s) == LET t == RStrip(LStrip(s))
              IN IF t # <<>> /\ Head(t) = "-" THEN -1 ELSE 1

IntParses(s) == LET b == IntBody(s) IN b # <<>> /\ \A i \in 1..Len(b) : b[i] \in Digits

IntOf(s) == IntSign(s) * DecimalValue(IntBody(s))

\* The number of leading decimal digits of s.
RECURSIVE DigitRun(_)
DigitRun(s) == IF s # <<>> /\ Head(s) \in Digits THEN 1 + DigitRun(Tail(s)) ELSE 0

----------------------------------------------------------------------------
(* The names of the environment variables (ci_diff_helper.environment_vars) *)
(* and the module constants of kokoro.py.                                   *)

KOKORO_PREFIX ==
    <<"K","O","K","O","R","O","_">>

\* A variable Kokoro sets that no resolver reads (the docstring's marker).
KOKORO_ENV_VAR ==
    <<"K","O","K","O","R","O","_","E","N","V","_","V","A","R">>

\* A variable of another tool whose name holds KOKORO_ but not at its start.
MY_KOKORO_VAR ==
    <<"M","Y","_","K","O","K","O","R","O","_","V","A","R">>

KOKORO_GERRIT_BRANCH ==
    <<"G","E","R","R","I","T","_","B","R","A","N","C","H">>

KOKORO_GOB_COMMIT ==
    <<"K","O","K","O","R","O","_","G","O","B","_","C","O","M","M","I","T">>

KOKORO_GITHUB_PULL_REQUEST_NUMBER ==
    <<"K","O","K","O","R","O","_","G","I","T","H","U","B","_","P","U","L","L","_","R","E","Q","U","E","S","T","_","N","U","M","B","E","R">>

KOKORO_GERRIT_CHANGE_NUMBER ==
    <<"G","E","R","R","I","T","_","C","H","A","N","G","E","_","N","U","M","B","E","R">>

KOKORO_GITHUB_PULL_REQUEST_URL ==
    <<"K","O","K","O","R","O","_","G","I","T","H","U","B","_","P","U","L","L","_","R","E","Q","U","E","S","T","_","U","R","L">>

KOKORO_GITHUB_COMMIT_URL ==
    <<"K","O","K","O","R","O","_","G","I","T","H","U","B","_","C","O","M","M","I","T","_","U","R","L">>

APPVEYOR_REPO_ENV ==
    <<"A","P","P","V","E","Y","O","R","_","R","E","P","O","_","P","R","O","V","I","D","E","R">>

_GITHUB_HOST ==
    <<"g","i","t","h","u","b",".","c","o","m">>

_GITHUB_PREFIX == <<"h","t","t","p","s",":","/","/">> \o _GITHUB_HOST \o <<"/">>

\* The literals of the two regular expressions of _repo_url.
PULL_LITERAL ==
    <<"/","p","u","l","l","/">>

COMMIT_LITERAL ==
    <<"/","c","o","m","m","i","t","/">>

HEAD_1 ==
    <<"H","E","A","D","~","1">>

----------------------------------------------------------------------------
(* os.environ. *)

\* os.environ.get(name): the text, or None.
EnvGet(e, name) == IF name \in DOMAIN e THEN StrVal(e[name]) ELSE None

\* os.getenv(name, ''): the text, or the empty text.
GetenvOrEmpty(e, name) == IF name \in DOMAIN e THEN e[name] ELSE <<>>

----------------------------------------------------------------------------
(* The enumerations. *)

KokoroRepoProvider_github == [tag |-> "KokoroRepoProvider", v |-> "github"]

KokoroRepoProvider_gerrit == [tag |-> "KokoroRepoProvider", v |-> "gerrit"]

\* AppVeyorRepoProvider: each member's value (the text it is looked up by)
\* and its name.
AppVeyorRepoProvider ==
    { << <<"g","i","t","h","u","b">>, "github" >>,
      << <<"b","i","t","b","u","c","k","e","t">>, "bitbucket" >>,
      << <<"k","i","l","n">>, "kiln" >>,
      << <<"v","s","o">>, "vso" >>,
      << <<"g","i","t","l","a","b">>, "gitlab" >> }

AppVeyorMember(name) == [tag |-> "AppVeyorRepoProvider", v |-> name]

\* [enum_val.name for enum_val in AppVeyorRepoProvider], in definition order.
AppVeyorNames == <<"github", "bitbucket", "kiln", "vso", "gitlab">>

----------------------------------------------------------------------------
(* The resolvers of kokoro.py: functions of the environment. *)

\* A variant of _in_ci that looks for KOKORO_ anywhere in a name.
_in_ci_anywhere(e) == \E key \in DOMAIN e : Contains(key, KOKORO_PREFIX)

_in_ci(e) == \E key \in DOMAIN e : StartsWith(key, KOKORO_PREFIX)

_ci_branch(provider, e) ==
    IF provider # KokoroRepoProvider_gerrit THEN None
    ELSE EnvGet(e, KOKORO_GERRIT_BRANCH)

\* A variant of _kokoro_ci_pr that tries the Gerrit change number first.
_kokoro_ci_pr_gerrit_first(e) ==
    LET gh == GetenvOrEmpty(e, KOKORO_GITHUB_PULL_REQUEST_NUMBER)
        gr == GetenvOrEmpty(e, KOKORO_GERRIT_CHANGE_NUMBER)
    IN IF IntParses(gr) THEN IntVal(IntOf(gr))
       ELSE IF IntParses(gh) THEN IntVal(IntOf(gh))
       ELSE None

_kokoro_ci_pr(e) ==
    LET gh == GetenvOrEmpty(e, KOKORO_GITHUB_PULL_REQUEST_NUMBER)
        gr == GetenvOrEmpty(e, KOKORO_GERRIT_CHANGE_NUMBER)
    IN IF IntParses(gh) THEN IntVal(IntOf(gh))
       ELSE IF IntParses(gr) THEN IntVal(IntOf(gr))
       ELSE None

\* The length of the match of /pull/[0-9]+ at the start of s, 0 if none.
PullMatch(s) ==
    IF StartsWith(s, PULL_LITERAL) /\ DigitRun(SubSeq(s, Len(PULL_LITERAL) + 1, Len(s))) > 0
    THEN Len(PULL_LITERAL) + DigitRun(SubSeq(s, Len(PULL_LITERAL) + 1, Len(s)))
    ELSE 0

\* re.sub(r'/pull/[0-9]+', '', s): every non-overlapping match, scanning
\* from the left, is removed.
RECURSIVE SubPull(_)
SubPull(s) ==
    IF s = <<>> THEN <<>>
    ELSE IF PullMatch(s) > 0 THEN SubPull(SubSeq(s, PullMatch(s) + 1, Len(s)))
    ELSE <<Head(s)>> \o SubPull(Tail(s))

\* re.sub(r'/commit/.*', '', s): `.` matches up to the end of the line, so
\* the text is cut at the first /commit/ of each line.
RECURSIVE SubCommit(_)
SubCommit(s) ==
    IF s = <<>> THEN <<>>
    ELSE IF StartsWith(s, COMMIT_LITERAL)
         THEN IF Contains(s, <<"\n">>)
              THEN SubCommit(SubSeq(s, FirstIndex(s, <<"\n">>), Len(s)))
              ELSE <<>>
    ELSE <<Head(s)>> \o SubCommit(Tail(s))

_repo_url(e) ==
    IF KOKORO_GITHUB_PULL_REQUEST_URL \in DOMAIN e
    THEN StrVal(SubPull(e[KOKORO_GITHUB_PULL_REQUEST_URL]))
    ELSE IF KOKORO_GITHUB_COMMIT_URL \in DOMAIN e
    THEN StrVal(SubCommit(e[KOKORO_GITHUB_COMMIT_URL]))
    ELSE None

\* `if repo_url`: None and the empty text are false.
Truthy(x) == x # None /\ x # StrVal(<<>>)

\* A variant of _provider_slug that classifies the URL before it looks for
\* the Gerrit markers.
_provider_slug_url_first(repo_url, e) ==
    IF Truthy(repo_url) /\ Contains(repo_url.v, _GITHUB_HOST)
    THEN IF StartsWith(repo_url.v, _GITHUB_PREFIX)
         THEN Return(<<KokoroRepoProvider_github, StrVal(Split1(repo_url.v, _GITHUB_PREFIX)[2])>>)
         ELSE Raise("ValueError", "MalformedRepoURL", <<StrVal(_GITHUB_HOST), StrVal(_GITHUB_PREFIX)>>)
    ELSE IF KOKORO_GERRIT_BRANCH \in DOMAIN e \/ KOKORO_GOB_COMMIT \in DOMAIN e
    THEN Return(<<KokoroRepoProvider_gerrit, None>>)
    ELSE Raise("ValueError", "ProviderUndetected", <<>>)

\* A variant of _provider_slug without the inner else: a URL with the host
\* but not the prefix falls through to the last raise.
_provider_slug_no_else(repo_url, e) ==
    IF KOKORO_GERRIT_BRANCH \in DOMAIN e \/ KOKORO_GOB_COMMIT \in DOMAIN e
    THEN Return(<<KokoroRepoProvider_gerrit, None>>)
    ELSE IF Truthy(repo_url) /\ Contains(repo_url.v, _GITHUB_HOST) /\ StartsWith(repo_url.v, _GITHUB_PREFIX)
    THEN Return(<<KokoroRepoProvider_github, StrVal(Split1(repo_url.v, _GITHUB_PREFIX)[2])>>)
    ELSE Raise("ValueError", "ProviderUndetected", <<>>)

\* The outcome is Return(<<provider, slug>>) or a raised ValueError.
_provider_slug(repo_url, e) ==
    IF KOKORO_GERRIT_BRANCH \in DOMAIN e \/ KOKORO_GOB_COMMIT \in DOMAIN e
    THEN Return(<<KokoroRepoProvider_gerrit, None>>)
    ELSE IF Truthy(repo_url) /\ Contains(repo_url.v, _GITHUB_HOST)
    THEN IF StartsWith(repo_url.v, _GITHUB_PREFIX)
         THEN Return(<<KokoroRepoProvider_github, StrVal(Split1(repo_url.v, _GITHUB_PREFIX)[2])>>)
         ELSE Raise("ValueError", "MalformedRepoURL", <<StrVal(_GITHUB_HOST), StrVal(_GITHUB_PREFIX)>>)
    ELSE Raise("ValueError", "ProviderUndetected", <<>>)

\* A variant of _appveyor_provider that takes a missing or empty variable
\* for github.
_appveyor_provider_default_github(e) ==
    LET repo_provider == GetenvOrEmpty(e, APPVEYOR_REPO_ENV)
    IN IF repo_provider = <<>> THEN Return(AppVeyorMember("github"))
       ELSE IF \E m \in AppVeyorRepoProvider : m[1] = repo_provider
       THEN Return(AppVeyorMember((CHOOSE m \in AppVeyorRepoProvider : m[1] = repo_provider)[2]))
       ELSE Raise("ValueError", "InvalidProviderValue", <<StrVal(repo_provider), ListVal(AppVeyorNames)>>)

\* appveyor.py
_appveyor_provider(e) ==
    LET repo_provider == GetenvOrEmpty(e, APPVEYOR_REPO_ENV)
    IN IF \E m \in AppVeyorRepoProvider : m[1] = repo_provider
       THEN Return(AppVeyorMember((CHOOSE m \in AppVeyorRepoProvider : m[1] = repo_provider)[2]))
       ELSE Raise("ValueError", "InvalidProviderValue", <<StrVal(repo_provider), ListVal(AppVeyorNames)>>)

----------------------------------------------------------------------------
(* The getters.  A getter takes the context c of the running access: the   *)
(* instance (c.self), the resolvers run so far in this access (c.ran) and  *)
(* the calls of _github.pr_info made so far in this access (c.calls).  It  *)
(* gives the context it leaves and its outcome.                            *)

Ctx(s) == [self |-> s, ran |-> <<>>, calls |-> <<>>]

\* A getter that raises leaves the context it reached and the exception.
Kokoro_active(c, e) ==
    IF c.self._active = UNSET
    THEN [c |-> [c EXCEPT !.self._active = BoolVal(_in_ci(e)), !.ran = Append(@, "_in_ci")],
          res |-> Return(BoolVal(_in_ci(e)))]
    ELSE [c |-> c, res |-> Return(c.self._active)]

\* A variant of pr that tests the slot against None instead of UNSET, and so
\* resolves again whenever the cached answer is "no pull request".
Kokoro_pr_none_as_unset(c, e) ==
    IF c.self._pr = UNSET \/ c.self._pr = None
    THEN [c |-> [c EXCEPT !.self._pr = _kokoro_ci_pr(e), !.ran = Append(@, "_kokoro_ci_pr")],
          res |-> Return(_kokoro_ci_pr(e))]
    ELSE [c |-> c, res |-> Return(c.self._pr)]

Kokoro_pr(c, e) ==
    IF c.self._pr = UNSET
    THEN [c |-> [c EXCEPT !.self._pr = _kokoro_ci_pr(e), !.ran = Append(@, "_kokoro_ci_pr")],
          res |-> Return(_kokoro_ci_pr(e))]
    ELSE [c |-> c, res |-> Return(c.self._pr)]

\* `return self.pr is not None`, given the outcome of self.pr.
InPrOf(rpr) == [c |-> rpr.c, res |-> Return(BoolVal(rpr.res.val # None))]

\* A variant of in_pr that reads the environment itself instead of self.pr.
Kokoro_in_pr_from_env(c, e) == [c |-> c, res |-> Return(BoolVal(_kokoro_ci_pr(e) # None))]

Kokoro_in_pr(c, e) == InPrOf(Kokoro_pr(c, e))

Kokoro_repo_url(c, e) ==
    IF c.self._repo_url = UNSET
    THEN [c |-> [c EXCEPT !.self._repo_url = _repo_url(e), !.ran = Append(@, "_repo_url")],
          res |-> Return(_repo_url(e))]
    ELSE [c |-> c, res |-> Return(c.self._repo_url)]

\* A variant of the assignment that stores the provider and forgets the slug.
StoreProviderOnly(c, ps) ==
    IF ps.ok
    THEN [c |-> [c EXCEPT !.self._provider = ps.val[1], !.ran = Append(@, "_provider_slug")], res |-> ps]
    ELSE [c |-> [c EXCEPT !.ran = Append(@, "_provider_slug")], res |-> ps]

\* A variant of the assignment that remembers a failed resolution: it stores
\* None in both slots before the exception leaves.
StoreProviderSlugOrNone(c, ps) ==
    IF ps.ok
    THEN [c |-> [c EXCEPT !.self._provider = ps.val[1], !.self._slug = ps.val[2],
                          !.ran = Append(@, "_provider_slug")],
          res |-> ps]
    ELSE [c |-> [c EXCEPT !.self._provider = None, !.self._slug = None,
                          !.ran = Append(@, "_provider_slug")],
          res |-> ps]

\* self._provider, self._slug = ps: the tuple assignment, given the context
\* c after self.repo_url and the outcome ps of _provider_slug.
StoreProviderSlug(c, ps) ==
    IF ps.ok
    THEN [c |-> [c EXCEPT !.self._provider = ps.val[1], !.self._slug = ps.val[2],
                          !.ran = Append(@, "_provider_slug")],
          res |-> ps]
    ELSE [c |-> [c EXCEPT !.ran = Append(@, "_provider_slug")], res |-> ps]

\* _provider_slug(self.repo_url), given the outcome of self.repo_url.
ProviderSlugOf(rurl, e) == StoreProviderSlug(rurl.c, _provider_slug(rurl.res.val, e))

\* The body of the `if` of provider and of slug: the same statement in both.
ResolveProviderSlug(c, e) == ProviderSlugOf(Kokoro_repo_url(c, e), e)

\* `return self._provider`, after the `if`.
ReturnProvider(r) == IF r.res.ok THEN [c |-> r.c, res |-> Return(r.c.self._provider)] ELSE r

Kokoro_provider(c, e) ==
    IF c.self._provider = UNSET
    THEN ReturnProvider(ResolveProviderSlug(c, e))
    ELSE [c |-> c, res |-> Return(c.self._provider)]

\* `return self._slug`, after the `if`.
ReturnSlug(r) == IF r.res.ok THEN [c |-> r.c, res |-> Return(r.c.self._slug)] ELSE r

Kokoro_slug(c, e) ==
    IF c.self._slug = UNSET
    THEN ReturnSlug(ResolveProviderSlug(c, e))
    ELSE [c |-> c, res |-> Return(c.self._slug)]

\* self._branch = _ci_branch(self.provider), given the outcome of self.provider.
BranchOf(rprov, e) ==
    IF rprov.res.ok
    THEN [c |-> [rprov.c EXCEPT !.self._branch = _ci_branch(rprov.res.val, e),
                                !.ran = Append(@, "_ci_branch")],
          res |-> Return(_ci_branch(rprov.res.val, e))]
    ELSE rprov

\* A variant of branch that resolves again on every access.
Kokoro_branch_uncached(c, e) == BranchOf(Kokoro_provider(c, e), e)

Kokoro_branch(c, e) ==
    IF c.self._branch = UNSET
    THEN BranchOf(Kokoro_provider(c, e), e)
    ELSE [c |-> c, res |-> Return(c.self._branch)]

\* _github.pr_info(slug, pr): `fetch` is what the remote client does when it
\* is called: it returns a payload or raises.
CallPrInfo(c, slug, current_pr, fetch) ==
    [c |-> [c EXCEPT !.calls = Append(@, [slug |-> slug, pr |-> current_pr, out |-> fetch]),
                     !.ran = Append(@, "pr_info")],
     res |-> fetch]

\* A variant of _pr_info that returns the payload without caching it.
ReturnPrInfoUnstored(call) == IF call.res.ok THEN [c |-> call.c, res |-> Return(call.res.val)] ELSE call

\* self._pr_info_cached = <the call's value>; return self._pr_info_cached.
StorePrInfo(call) ==
    IF call.res.ok
    THEN [c |-> [call.c EXCEPT !.self._pr_info_cached = call.res.val], res |-> Return(call.res.val)]
    ELSE call

\* A variant that hands the client the repository URL instead of the slug.
PrInfoWithRepoUrl(rslug, current_pr, fetch) ==
    IF rslug.res.ok
    THEN StorePrInfo(CallPrInfo(rslug.c, rslug.c.self._repo_url, current_pr, fetch))
    ELSE rslug

\* _github.pr_info(self.slug, current_pr), given the outcome of self.slug.
PrInfoWithSlug(rslug, current_pr, fetch) ==
    IF rslug.res.ok
    THEN StorePrInfo(CallPrInfo(rslug.c, rslug.res.val, current_pr, fetch))
    ELSE rslug

\* A variant of the `elif` that hands the client the PR number the
\* environment resolves to now instead of current_pr.
PrInfoWithProviderEnvPr(rprov, current_pr, e, fetch) ==
    IF ~rprov.res.ok THEN rprov
    ELSE IF rprov.res.val = KokoroRepoProvider_github
    THEN PrInfoWithSlug(Kokoro_slug(rprov.c, e), _kokoro_ci_pr(e), fetch)
    ELSE [c |-> rprov.c, res |-> Raise("NotImplementedError", "GitHubOnlyPRInfo", <<>>)]

\* `elif self.provider is KokoroRepoProvider.github`, given the outcome of
\* self.provider.
PrInfoWithProvider(rprov, current_pr, e, fetch) ==
    IF ~rprov.res.ok THEN rprov
    ELSE IF rprov.res.val = KokoroRepoProvider_github
    THEN PrInfoWithSlug(Kokoro_slug(rprov.c, e), current_pr, fetch)
    ELSE [c |-> rprov.c, res |-> Raise("NotImplementedError", "GitHubOnlyPRInfo", <<>>)]

\* `current_pr = self.pr` and the branch on it, given the outcome of self.pr.
PrInfoWithPr(rpr, e, fetch) ==
    IF rpr.res.val = None
    THEN [c |-> [rpr.c EXCEPT !.self._pr_info_cached = Dict({})], res |-> Return(Dict({}))]
    ELSE PrInfoWithProvider(Kokoro_provider(rpr.c, e), rpr.res.val, e, fetch)

Kokoro__pr_info(c, e, fetch) ==
    IF c.self._pr_info_cached # UNSET
    THEN [c |-> c, res |-> Return(c.self._pr_info_cached)]
    ELSE PrInfoWithPr(Kokoro_pr(c, e), e, fetch)

\* pr_info['base']['sha'] raises KeyError when either key is missing.
HasBaseSha(pr_info) == HasKey(pr_info, "base") /\ HasKey(GetItem(pr_info, "base"), "sha")

\* raise KeyError(..., pr_info, self.slug, self.pr), given the outcomes of
\* self.slug and then self.pr.
RaiseMissingKey(pr_info, rslug, rpr) ==
    IF rslug.res.ok
    THEN [c |-> rpr.c,
          res |-> Raise("KeyError", "MalformedPRPayload", <<pr_info, rslug.res.val, rpr.res.val>>)]
    ELSE rslug

MissingKey(pr_info, rslug, e) == RaiseMissingKey(pr_info, rslug, Kokoro_pr(rslug.c, e))

\* A variant of the try block that swallows the KeyError and caches None.
BaseFromPrInfoOrNone(rinfo, e) ==
    IF ~rinfo.res.ok THEN rinfo
    ELSE IF HasBaseSha(rinfo.res.val)
    THEN [c |-> [rinfo.c EXCEPT !.self._base = GetItem(GetItem(rinfo.res.val, "base"), "sha")],
          res |-> Return(GetItem(GetItem(rinfo.res.val, "base"), "sha"))]
    ELSE [c |-> [rinfo.c EXCEPT !.self._base = None], res |-> Return(None)]

\* The try block of base, given the outcome of self._pr_info.
BaseFromPrInfo(rinfo, e) ==
    IF ~rinfo.res.ok THEN rinfo
    ELSE IF HasBaseSha(rinfo.res.val)
    THEN [c |-> [rinfo.c EXCEPT !.self._base = GetItem(GetItem(rinfo.res.val, "base"), "sha")],
          res |-> Return(GetItem(GetItem(rinfo.res.val, "base"), "sha"))]
    ELSE MissingKey(rinfo.res.val, Kokoro_slug(rinfo.c, e), e)

\* A variant of the `if self.in_pr` that answers None outside a pull request
\* instead of raising.
BaseWithInPrOrNone(rin, e, fetch) ==
    IF rin.res.val.v
    THEN BaseFromPrInfo(Kokoro__pr_info(rin.c, e, fetch), e)
    ELSE [c |-> [rin.c EXCEPT !.self._base = None], res |-> Return(None)]

\* `if self.in_pr`, given the outcome of self.in_pr.
BaseWithInPr(rin, e, fetch) ==
    IF rin.res.val.v
    THEN BaseFromPrInfo(Kokoro__pr_info(rin.c, e, fetch), e)
    ELSE [c |-> rin.c, res |-> Raise("NotImplementedError", "UnsupportedBaseResolution", <<>>)]

\* A variant of base that tests in_pr before it tests for Gerrit.
BaseWithInPrFirst(rprov, e, fetch) ==
    IF ~rprov.res.ok THEN rprov
    ELSE IF Kokoro_in_pr(rprov.c, e).res.val.v
    THEN BaseWithInPr(Kokoro_in_pr(rprov.c, e), e, fetch)
    ELSE IF rprov.res.val = KokoroRepoProvider_gerrit
    THEN [c |-> [rprov.c EXCEPT !.self._base = StrVal(HEAD_1)], res |-> Return(StrVal(HEAD_1))]
    ELSE BaseWithInPr(Kokoro_in_pr(rprov.c, e), e, fetch)

\* `if self.provider == KokoroRepoProvider.gerrit`, given the outcome of
\* self.provider.
BaseWithProvider(rprov, e, fetch) ==
    IF ~rprov.res.ok THEN rprov
    ELSE IF rprov.res.val = KokoroRepoProvider_gerrit
    THEN [c |-> [rprov.c EXCEPT !.self._base = StrVal(HEAD_1)], res |-> Return(StrVal(HEAD_1))]
    ELSE BaseWithInPr(Kokoro_in_pr(rprov.c, e), e, fetch)

Kokoro_base(c, e, fetch) ==
    IF c.self._base # UNSET
    THEN [c |-> c, res |-> Return(c.self._base)]
    ELSE BaseWithProvider(Kokoro_provider(c, e), e, fetch)

\* self._provider = _appveyor_provider(), given the resolver's outcome.
StoreAppVeyorProvider(c, r) ==
    IF r.ok
    THEN [c |-> [c EXCEPT !.self._provider = r.val, !.ran = Append(@, "_appveyor_provider")], res |-> r]
    ELSE [c |-> [c EXCEPT !.ran = Append(@, "_appveyor_provider")], res |-> r]

AppVeyor_provider(c, e) ==
    IF c.self._provider = UNSET
    THEN StoreAppVeyorProvider(c, _appveyor_provider(e))
    ELSE [c |-> c, res |-> Return(c.self._provider)]

----------------------------------------------------------------------------
(* The environments and the remote answers the model draws from. *)

ORG_REPO ==
    <<"o","r","g","/","r","e","p","o">>

\* https://github.com/org/repo/pull/23
PrUrlGitHub == _GITHUB_PREFIX \o ORG_REPO \o PULL_LITERAL \o <<"2","3">>

\* http://github.com/org/repo/pull/23: the host, not the expected prefix.
PrUrlHttp == <<"h","t","t","p",":","/","/">> \o _GITHUB_HOST \o <<"/">> \o ORG_REPO \o PULL_LITERAL \o <<"2","3">>

\* https://gitlab.com/org/repo/pull/23: another host.
PrUrlOtherHost == <<"h","t","t","p","s",":","/","/","g","i","t","l","a","b",".","c","o","m","/">> \o ORG_REPO \o PULL_LITERAL \o <<"2","3">>

\* https://github.com/pull/1/pull/23: pull request 23 of the repository
\* named 1 of the organization named pull.
PrUrlPullOrg == _GITHUB_PREFIX \o <<"p","u","l","l","/","1">> \o PULL_LITERAL \o <<"2","3">>

\* https://github.com/org/repo/commit/abc
CommitUrlGitHub == _GITHUB_PREFIX \o ORG_REPO \o COMMIT_LITERAL \o <<"a","b","c">>

KokoroNames ==
    { KOKORO_ENV_VAR, KOKORO_GERRIT_BRANCH, KOKORO_GOB_COMMIT, KOKORO_GITHUB_PULL_REQUEST_NUMBER,
      KOKORO_GERRIT_CHANGE_NUMBER, KOKORO_GITHUB_PULL_REQUEST_URL, KOKORO_GITHUB_COMMIT_URL }

AppVeyorNamesOfEnv == { APPVEYOR_REPO_ENV }

\* The texts a variable may hold.
TextsOf(name) ==
    CASE name = KOKORO_ENV_VAR -> { <<"1">> }
      [] name = KOKORO_GERRIT_BRANCH -> { <<"m","a","s","t","e","r">> }
      [] name = KOKORO_GOB_COMMIT -> { <<"c","0">> }
      [] name = KOKORO_GITHUB_PULL_REQUEST_NUMBER -> { <<"2","3">>, <<"2","x">>, <<>> }
      [] name = KOKORO_GERRIT_CHANGE_NUMBER -> { <<"7">>, <<"x">> }
      [] name = KOKORO_GITHUB_PULL_REQUEST_URL -> { PrUrlGitHub, PrUrlHttp, PrUrlOtherHost, PrUrlPullOrg, <<>> }
      [] name = KOKORO_GITHUB_COMMIT_URL -> { CommitUrlGitHub }
      [] name = APPVEYOR_REPO_ENV -> { <<"g","i","t","h","u","b">>, <<"b","i","t","b","u","c","k","e","t">>,
                                       <<"k","i","l","n">>, <<"v","s","o">>, <<"g","i","t","l","a","b">>,
                                       <<"s","v","n">>, <<"G","i","t","H","u","b">>,
                                       <<"g","i","t","h","u","b"," ">>, <<>> }

EmptyEnv == [n \in {} |-> <<>>]

\* Every environment over the names: each name absent or holding one of its texts.
RECURSIVE EnvsOver(_)
EnvsOver(names) ==
    IF names = {} THEN { EmptyEnv }
    ELSE LET n == CHOOSE x \in names : TRUE
             rest == EnvsOver(names \ {n})
         IN rest \cup { e @@ (n :> v) : e \in rest, v \in TextsOf(n) }

NamesOf(cls) == IF cls = "Kokoro" THEN KokoroNames ELSE AppVeyorNamesOfEnv

ShaA == StrVal(<<"a","b","c","1","2","3">>)

ShaB == StrVal(<<"d","e","f","4","5","6">>)

Payload(sha) == Dict({ <<"base", Dict({ <<"sha", sha>> })>> })

\* What _github.pr_info may do when called: return a well-formed payload,
\* return a payload without base or without base.sha, or raise.
PrInfoOutcomes ==
    { Return(Payload(ShaA)), Return(Payload(ShaB)),
      Return(Dict({})), Return(Dict({ <<"base", Dict({})>> })),
      Raise("HTTPError", "PRInfoUnavailable", <<>>) }

----------------------------------------------------------------------------
(* The state machine. *)

FreshKokoro ==
    [_active |-> UNSET, _branch |-> UNSET, _base |-> UNSET, _pr |-> UNSET,
     _pr_info_cached |-> UNSET, _provider |-> UNSET, _repo_url |-> UNSET, _slug |-> UNSET]

FreshAppVeyor == [_provider |-> UNSET]

Step(op, res, ran) == [op |-> op, res |-> res, ran |-> ran]

\* The environments of the documented builds: the module docstring's
\* auto-detect, kokoro-ci-push and kokoro-ci-pr set-ups, an empty one, and
\* one outside Kokoro that holds only another tool's variable.
ScenarioEnvs(cls) ==
    IF cls = "Kokoro"
    THEN { EmptyEnv,
           (MY_KOKORO_VAR :> <<"1">>),
           (KOKORO_ENV_VAR :> <<"1">>),
           (KOKORO_ENV_VAR :> <<"1">>) @@ (KOKORO_GERRIT_BRANCH :> <<"m","a","s","t","e","r">>),
           (KOKORO_ENV_VAR :> <<"1">>) @@ (KOKORO_GITHUB_PULL_REQUEST_NUMBER :> <<"2","3">>)
               @@ (KOKORO_GITHUB_PULL_REQUEST_URL :> PrUrlGitHub) }
    ELSE EnvsOver(AppVeyorNamesOfEnv)

\* The instance is fresh.  Its process either starts in any environment and
\* leaves it alone (a build's environment is static), or starts in one of the
\* documented environments and may rewrite it up to MaxEnvWrites times.
Init ==
    /\ config \in {"Kokoro", "AppVeyor"}
    /\ writesLeft \in {0, MaxEnvWrites}
    /\ environ \in IF writesLeft = 0 THEN EnvsOver(NamesOf(config)) ELSE ScenarioEnvs(config)
    /\ self = IF config = "Kokoro" THEN FreshKokoro ELSE FreshAppVeyor
    /\ last = Step("__init__", Return(None), <<>>)
    /\ fetches = <<>>
    /\ threads = <<>>

\* One access of a property: the getter's outcome r becomes the state.
Access(op, r) ==
    /\ Len(fetches) + Len(r.c.calls) <= MaxFetches
    /\ self' = r.c.self
    /\ last' = Step(op, r.res, r.c.ran)
    /\ fetches' = fetches \o r.c.calls
    /\ UNCHANGED <<environ, config, writesLeft, threads>>

active == config = "Kokoro" /\ Access("active", Kokoro_active(Ctx(self), environ))

branch == config = "Kokoro" /\ Access("branch", Kokoro_branch(Ctx(self), environ))

pr == config = "Kokoro" /\ Access("pr", Kokoro_pr(Ctx(self), environ))

in_pr == config = "Kokoro" /\ Access("in_pr", Kokoro_in_pr(Ctx(self), environ))

repo_url == config = "Kokoro" /\ Access("repo_url", Kokoro_repo_url(Ctx(self), environ))

provider == config = "Kokoro" /\ Access("provider", Kokoro_provider(Ctx(self), environ))

slug == config = "Kokoro" /\ Access("slug", Kokoro_slug(Ctx(self), environ))

base ==
    /\ config = "Kokoro"
    /\ \E fetch \in PrInfoOutcomes : Access("base", Kokoro_base(Ctx(self), environ, fetch))

appveyor_provider == config = "AppVeyor" /\ Access("provider", AppVeyor_provider(Ctx(self), environ))

\* The process (or a test's mock) rewrites os.environ between two accesses.
EnvWrite(e) ==
    /\ writesLeft > 0
    /\ environ' = e
    /\ writesLeft' = writesLeft - 1
    /\ last' = Step("os.environ", Return(None), <<>>)
    /\ UNCHANGED <<config, self, fetches, threads>>

setenv == \E n \in NamesOf(config) : \E v \in TextsOf(n) : EnvWrite([x \in DOMAIN environ \cup {n} |-> IF x = n THEN v ELSE environ[x]])

delenv == \E n \in DOMAIN environ : EnvWrite([x \in DOMAIN environ \ {n} |-> environ[x]])

Next ==
    \/ active
    \/ branch
    \/ pr
    \/ in_pr
    \/ repo_url
    \/ provider
    \/ slug
    \/ base
    \/ appveyor_provider
    \/ setenv
    \/ delenv

Spec == Init /\ [][Next]_vars

----------------------------------------------------------------------------
(* Threads.  Several threads read provider and slug of one shared Kokoro   *)
(* instance in a fixed environment.  A getter is no longer one step: the   *)
(* test of the slot, the test, the resolver call and the store of the      *)
(* nested repo_url getter, the call of _provider_slug, the store of each   *)
(* of the two slots and the final read of the slot are steps of their own, *)
(* and the threads interleave between any two of them.                     *)

Threads == {"t1", "t2"}

\* A thread between two accesses; `done` is its latest finished access.
IdleThread(n, done) ==
    [pc |-> "idle", op |-> "", url |-> UNSET, ps |-> Return(None), n |-> n, done |-> done]

\* The environments of the threaded runs: the variables provider and slug
\* depend on.
ThreadEnvs == EnvsOver({KOKORO_GERRIT_BRANCH, KOKORO_GITHUB_PULL_REQUEST_URL, KOKORO_GITHUB_COMMIT_URL})

InitThreads ==
    /\ config = "Kokoro"
    /\ writesLeft = 0
    /\ environ \in ThreadEnvs
    /\ self = FreshKokoro
    /\ last = Step("__init__", Return(None), <<>>)
    /\ fetches = <<>>
    /\ threads = [t \in Threads |-> IdleThread(0, Step("__init__", Return(None), <<>>))]

\* A variant in which both getters test the provider slot (slug takes a
\* filled provider slot to mean that the slug slot is filled too).
TestedSlotProviderOnly(op) == "_provider"

\* The slot a getter tests against UNSET: its own.
TestedSlot(op) == IF op = "provider" THEN "_provider" ELSE "_slug"

\* The slot a getter returns.
ReturnedSlot(op) == IF op = "provider" THEN "_provider" ELSE "_slug"

\* Thread t takes the step that leaves it as r and the instance as s.
ThreadStep(t, r, s) ==
    /\ threads' = [threads EXCEPT ![t] = r]
    /\ self' = s
    /\ UNCHANGED <<environ, config, last, fetches, writesLeft>>

\* A thread starts reading provider or slug.
t_begin ==
    \E t \in Threads : \E op \in {"provider", "slug"} :
        /\ threads[t].pc = "idle"
        /\ threads[t].n < MaxAccesses
        /\ ThreadStep(t, [threads[t] EXCEPT !.pc = "check", !.op = op], self)

\* `if self._provider is UNSET` / `if self._slug is UNSET`
t_check ==
    \E t \in Threads :
        /\ threads[t].pc = "check"
        /\ ThreadStep(t, [threads[t] EXCEPT !.pc = IF self[TestedSlot(threads[t].op)] = UNSET
                                                    THEN "repo_check" ELSE "return"], self)

\* self.repo_url: `if self._repo_url is UNSET`
t_repo_check ==
    \E t \in Threads :
        /\ threads[t].pc = "repo_check"
        /\ ThreadStep(t, [threads[t] EXCEPT !.pc = IF self._repo_url = UNSET
                                                    THEN "repo_call" ELSE "repo_return"], self)

\* self.repo_url: the call _repo_url()
t_repo_call ==
    \E t \in Threads :
        /\ threads[t].pc = "repo_call"
        /\ ThreadStep(t, [threads[t] EXCEPT !.pc = "repo_store", !.url = _repo_url(environ)], self)

\* self.repo_url: the store self._repo_url = ...
t_repo_store ==
    \E t \in Threads :
        /\ threads[t].pc = "repo_store"
        /\ ThreadStep(t, [threads[t] EXCEPT !.pc = "repo_return"], [self EXCEPT !._repo_url = threads[t].url])

\* self.repo_url: `return self._repo_url`
t_repo_return ==
    \E t \in Threads :
        /\ threads[t].pc = "repo_return"
        /\ ThreadStep(t, [threads[t] EXCEPT !.pc = "call", !.url = self._repo_url], self)

\* The call _provider_slug(<repo_url>); an exception ends the access.
t_call ==
    \E t \in Threads :
        /\ threads[t].pc = "call"
        /\ IF _provider_slug(threads[t].url, environ).ok
           THEN ThreadStep(t, [threads[t] EXCEPT !.pc = "store_provider",
                                                 !.ps = _provider_slug(threads[t].url, environ)], self)
           ELSE ThreadStep(t, IdleThread(threads[t].n + 1,
                                         Step(threads[t].op, _provider_slug(threads[t].url, environ), <<>>)), self)

\* The first store of the tuple assignment: self._provider = ...
t_store_provider ==
    \E t \in Threads :
        /\ threads[t].pc = "store_provider"
        /\ ThreadStep(t, [threads[t] EXCEPT !.pc = "store_slug"], [self EXCEPT !._provider = threads[t].ps.val[1]])

\* The second store of the tuple assignment: self._slug = ...
t_store_slug ==
    \E t \in Threads :
        /\ threads[t].pc = "store_slug"
        /\ ThreadStep(t, [threads[t] EXCEPT !.pc = "return"], [self EXCEPT !._slug = threads[t].ps.val[2]])

\* `return self._provider` / `return self._slug`
t_return ==
    \E t \in Threads :
        /\ threads[t].pc = "return"
        /\ ThreadStep(t, IdleThread(threads[t].n + 1,
                                    Step(threads[t].op, Return(self[ReturnedSlot(threads[t].op)]), <<>>)), self)

NextThreads ==
    \/ t_begin
    \/ t_check
    \/ t_repo_check
    \/ t_repo_call
    \/ t_repo_store
    \/ t_repo_return
    \/ t_call
    \/ t_store_provider
    \/ t_store_slug
    \/ t_return

SpecThreads == InitThreads /\ [][NextThreads]_vars

----------------------------------------------------------------------------
(* Vocabulary of the properties checked below. *)

IsKokoro == config = "Kokoro"

\* The latest step ran the resolver (or the remote call) named x.
Ran(x) == \E i \in 1..Len(last.ran) : last.ran[i] = x

\* How many times the latest step ran x.
RanCount(x) == Cardinality({i \in 1..Len(last.ran) : last.ran[i] = x})

\* The properties that cache their value in a slot of their own, per class.
CachedProperties ==
    IF IsKokoro THEN {"provider", "branch", "pr", "base", "slug", "repo_url"} ELSE {"provider"}

\* The slot of instance s that property p caches in.
Slot(s, p) ==
    CASE p = "active" -> s._active
      [] p = "branch" -> s._branch
      [] p = "pr" -> s._pr
      [] p = "base" -> s._base
      [] p = "slug" -> s._slug
      [] p = "repo_url" -> s._repo_url
      [] p = "provider" -> s._provider

NoRepeats(seq) == \A i, j \in 1..Len(seq) : seq[i] = seq[j] => i = j

GerritMarked(e) == KOKORO_GERRIT_BRANCH \in DOMAIN e \/ KOKORO_GOB_COMMIT \in DOMAIN e

----------------------------------------------------------------------------
(* C1: whenever in_pr has just been read on a Kokoro instance, it returned *)
(* (it never raises), the pr slot is filled, and the value returned is     *)
(* exactly `pr is not None` of the cached pr: True iff the cached pr is an *)
(* integer, False iff it is None.  The instance has the eight cache slots  *)
(* of the class and none for in_pr.                                        *)
C1_InPrIsPrNotNone ==
    IsKokoro =>
        /\ DOMAIN self = {"_active", "_branch", "_base", "_pr", "_pr_info_cached",
                          "_provider", "_repo_url", "_slug"}
        /\ last.op = "in_pr" =>
            /\ last.res.ok
            /\ self._pr # UNSET
            /\ last.res.val = BoolVal(self._pr # None)
            /\ last.res.val = BoolVal(TRUE) <=> self._pr.tag = "int"
            /\ last.res.val = BoolVal(FALSE) <=> self._pr = None

\* in_pr answered True from the cached pr although the environment, rewritten
\* since, no longer names a pull request.
C1_Witness ==
    /\ IsKokoro
    /\ last.op = "in_pr"
    /\ last.res.val = BoolVal(TRUE)
    /\ last.ran = <<>>
    /\ _kokoro_ci_pr(environ) = None

----------------------------------------------------------------------------
(* C2: on a Kokoro instance the provider slot and the slug slot are unset  *)
(* together or filled together, in every reachable state; when filled they *)
(* hold one result of _provider_slug (gerrit with no slug, or github with  *)
(* a text slug: for the cached repo_url, the slug is its remainder after   *)
(* the GitHub prefix); and a provider or slug access that returns leaves   *)
(* both filled.                                                            *)
C2_ProviderSlugPaired ==
    IsKokoro =>
        /\ self._provider = UNSET <=> self._slug = UNSET
        /\ self._provider # UNSET =>
            \/ self._provider = KokoroRepoProvider_gerrit /\ self._slug = None
            \/ /\ self._provider = KokoroRepoProvider_github
               /\ self._repo_url # UNSET /\ self._repo_url # None
               /\ self._slug = StrVal(SubSeq(self._repo_url.v, Len(_GITHUB_PREFIX) + 1, Len(self._repo_url.v)))
        /\ (last.op \in {"provider", "slug"} /\ last.res.ok) =>
            /\ self._provider # UNSET /\ self._slug # UNSET
            /\ last.res.val = IF last.op = "provider" THEN self._provider ELSE self._slug
        /\ (last.op \in {"provider", "slug"} /\ ~last.res.ok) =>
            self._provider = UNSET /\ self._slug = UNSET

\* slug was read first on a Gerrit build: it returned None, and both slots
\* are filled (the slug slot with None, not with the sentinel).
C2_Witness ==
    /\ IsKokoro
    /\ last.op = "slug"
    /\ Ran("_provider_slug")
    /\ last.res = Return(None)
    /\ self._provider = KokoroRepoProvider_gerrit
    /\ self._slug = None

----------------------------------------------------------------------------
----------------------------------------------------------------------------
(* C4 as stated: _github.pr_info is never called more than once on one     *)
(* instance.                                                               *)
C4_FetchAtMostOnce == Len(fetches) <= 1

(* C4, amended: at most one call of _github.pr_info RETURNS on one         *)
(* instance.  The payload it returned is cached in the instance at once,   *)
(* and no call is made after it; a call that raised cached nothing, and    *)
(* only such calls can precede another call.                               *)
C4_FetchReturnsAtMostOnce ==
    IsKokoro =>
        /\ \A i \in 1..Len(fetches) : i < Len(fetches) => ~fetches[i].out.ok
        /\ \A i \in 1..Len(fetches) : fetches[i].out.ok => self._pr_info_cached = fetches[i].out.val
        /\ self._pr_info_cached # UNSET =>
            /\ Len(fetches) >= 1
            /\ fetches[Len(fetches)].out = Return(self._pr_info_cached)
        /\ (last.op = "base" /\ self._pr_info_cached # UNSET) => RanCount("pr_info") <= 1

\* The first call raised, the next access called again and got a payload,
\* and a later base access was served from the cache.
C4_Witness ==
    /\ IsKokoro
    /\ Len(fetches) = 2
    /\ ~fetches[1].out.ok
    /\ fetches[2].out = Return(Payload(ShaA))
    /\ last.op = "base"
    /\ last.ran = <<>>
    /\ last.res = Return(ShaA)

----------------------------------------------------------------------------
(* C5: no step (an access of any property, or a rewrite of the             *)
(* environment) changes a cache slot that is filled: active, branch,       *)
(* provider, slug, repo_url, pr, base of a Kokoro instance, provider of an *)
(* AppVeyor instance.                                                      *)
C5_FilledSlotsNeverChange ==
    [][\A p \in (IF IsKokoro THEN {"active", "branch", "provider", "slug", "repo_url", "pr", "base"}
                 ELSE {"provider"}) :
          Slot(self, p) # UNSET => Slot(self', p) = Slot(self, p)]_vars

\* pr was read again after the environment was rewritten: the slot still
\* holds 23 although the environment now resolves to something else.
C5_Witness ==
    /\ IsKokoro
    /\ last.op = "pr"
    /\ last.res = Return(IntVal(23))
    /\ self._pr = IntVal(23)
    /\ _kokoro_ci_pr(environ) # IntVal(23)

----------------------------------------------------------------------------
(* C6: whenever an access has just resolved the provider (it ran           *)
(* _provider_slug) in an environment that holds the Gerrit branch variable *)
(* or the GOB commit variable, the provider slot is gerrit and the slug    *)
(* slot is None, whatever the URL variables hold; provider returned        *)
(* gerrit, slug returned None, and the remote client was not called, in    *)
(* this access or before.                                                  *)
C6_GerritPrecedence ==
    (IsKokoro /\ Ran("_provider_slug") /\ GerritMarked(environ)) =>
        /\ last.res.ok
        /\ self._provider = KokoroRepoProvider_gerrit
        /\ self._slug = None
        /\ last.op = "provider" => last.res = Return(KokoroRepoProvider_gerrit)
        /\ last.op = "slug" => last.res = Return(None)
        /\ ~Ran("pr_info")
        /\ fetches = <<>>

\* provider was resolved with only the GOB commit variable as Gerrit marker
\* while the PR-URL variable held a well-formed github.com URL.
C6_Witness ==
    /\ IsKokoro
    /\ last.op = "provider"
    /\ Ran("_provider_slug")
    /\ KOKORO_GOB_COMMIT \in DOMAIN environ
    /\ KOKORO_GERRIT_BRANCH \notin DOMAIN environ
    /\ KOKORO_GITHUB_PULL_REQUEST_URL \in DOMAIN environ
    /\ environ[KOKORO_GITHUB_PULL_REQUEST_URL] = PrUrlGitHub
    /\ self._repo_url = StrVal(_GITHUB_PREFIX \o ORG_REPO)
    /\ last.res = Return(KokoroRepoProvider_gerrit)

----------------------------------------------------------------------------
(* C7: whenever provider or slug has just resolved the provider in an      *)
(* environment without Gerrit markers, the outcome is decided by the       *)
(* repo_url the instance holds:                                            *)
(*  - a text that contains github.com and starts with https://github.com/ *)
(*    gives provider github and slug the rest of the text after that       *)
(*    prefix;                                                              *)
(*  - a text that contains github.com but does not start with the prefix   *)
(*    raises the ValueError for a malformed repository URL;                *)
(*  - None, the empty text or a text without github.com raises the         *)
(*    ValueError for an undetected provider;                               *)
(* and a raise leaves both slots unset.                                    *)
C7_ThreeWayClassification ==
    (IsKokoro /\ last.op \in {"provider", "slug"} /\ Ran("_provider_slug") /\ ~GerritMarked(environ)) =>
        /\ self._repo_url # UNSET
        /\ IF self._repo_url # None /\ self._repo_url.v # <<>> /\ Contains(self._repo_url.v, _GITHUB_HOST)
           THEN IF Len(self._repo_url.v) >= Len(_GITHUB_PREFIX) /\ SubSeq(self._repo_url.v, 1, Len(_GITHUB_PREFIX)) = _GITHUB_PREFIX
                THEN /\ self._provider = KokoroRepoProvider_github
                     /\ self._slug = StrVal(SubSeq(self._repo_url.v, Len(_GITHUB_PREFIX) + 1, Len(self._repo_url.v)))
                     /\ last.res = Return(IF last.op = "provider" THEN self._provider ELSE self._slug)
                ELSE /\ ~last.res.ok
                     /\ last.res.exc = "ValueError"
                     /\ last.res.kind = "MalformedRepoURL"
                     /\ self._provider = UNSET /\ self._slug = UNSET
           ELSE /\ ~last.res.ok
                /\ last.res.exc = "ValueError"
                /\ last.res.kind = "ProviderUndetected"
                /\ self._provider = UNSET /\ self._slug = UNSET

\* slug was read where the URL has the host but not the prefix: it raised
\* the malformed-URL error.
C7_Witness ==
    /\ IsKokoro
    /\ last.op = "slug"
    /\ Ran("_provider_slug")
    /\ ~GerritMarked(environ)
    /\ self._repo_url = StrVal(<<"h","t","t","p",":","/","/">> \o _GITHUB_HOST \o <<"/">> \o ORG_REPO)
    /\ last.res.kind = "MalformedRepoURL"

----------------------------------------------------------------------------
----------------------------------------------------------------------------
(* C9: in every step that reads base while the base slot and the payload   *)
(* slot are unset, on an instance that comes out with provider github and  *)
(* an integer pr: the remote client is called exactly once, with the       *)
(* instance's slug and pr; and if it returns a payload with base.sha, base *)
(* returns that sha and the base slot holds it.                            *)
C9_FirstBaseFetchesOnce ==
    [][(/\ IsKokoro
        /\ last'.op = "base"
        /\ self._base = UNSET
        /\ self._pr_info_cached = UNSET
        /\ self'._provider = KokoroRepoProvider_github
        /\ self'._pr # UNSET /\ self'._pr # None) =>
           /\ Len(fetches') = Len(fetches) + 1
           /\ RanCount("pr_info")' = 1
           /\ fetches'[Len(fetches')].slug = self'._slug
           /\ fetches'[Len(fetches')].slug.tag = "str"
           /\ fetches'[Len(fetches')].pr = self'._pr
           /\ fetches'[Len(fetches')].pr.tag = "int"
           /\ (fetches'[Len(fetches')].out.ok /\ HasBaseSha(fetches'[Len(fetches')].out.val)) =>
               /\ last'.res = Return(GetItem(GetItem(fetches'[Len(fetches')].out.val, "base"), "sha"))
               /\ self'._base = last'.res.val
               /\ self'._pr_info_cached = fetches'[Len(fetches')].out.val]_vars

\* The docstring's kokoro-ci-pr build: one call, for (org/repo, 23), whose
\* sha base returned.
C9_Witness ==
    /\ IsKokoro
    /\ last.op = "base"
    /\ Ran("pr_info")
    /\ fetches = << [slug |-> StrVal(ORG_REPO), pr |-> IntVal(23), out |-> Return(Payload(ShaA))] >>
    /\ last.res = Return(ShaA)
    /\ self._base = ShaA

----------------------------------------------------------------------------
(* C10: in every step that reads base on an instance that comes out        *)
(* holding a payload without base or without base.sha, base raises the     *)
(* KeyError for a malformed payload, carrying that payload, the slug and   *)
(* the pr, and the base slot stays unset; and when the instance already    *)
(* held such a payload before the step, the access raises the same         *)
(* exception without calling the remote client or changing the instance.   *)
C10_MalformedPayload ==
    [][(IsKokoro /\ last'.op = "base") =>
           /\ (self'._pr_info_cached # UNSET /\ ~HasBaseSha(self'._pr_info_cached)) =>
               /\ last'.res = Raise("KeyError", "MalformedPRPayload",
                                    <<self'._pr_info_cached, self'._slug, self'._pr>>)
               /\ self'._slug.tag = "str"
               /\ self'._pr.tag = "int"
               /\ self'._base = UNSET
           /\ (self._pr_info_cached # UNSET /\ ~HasBaseSha(self._pr_info_cached)) =>
               /\ fetches' = fetches
               /\ self' = self
               /\ last'.ran = <<>>
           /\ last'.res.kind = "MalformedPRPayload" =>
               /\ self'._pr_info_cached = last'.res.args[1]
               /\ ~HasBaseSha(last'.res.args[1])]_vars

\* base was read again after the client had returned {}: it raised the same
\* KeyError from the cached payload.
C10_Witness ==
    /\ IsKokoro
    /\ last.op = "base"
    /\ last.ran = <<>>
    /\ fetches = << [slug |-> StrVal(ORG_REPO), pr |-> IntVal(23), out |-> Return(Dict({}))] >>
    /\ last.res = Raise("KeyError", "MalformedPRPayload", <<Dict({}), StrVal(ORG_REPO), IntVal(23)>>)
    /\ self._base = UNSET

----------------------------------------------------------------------------
\* A step that reads base where the environment holds no Gerrit marker and
\* no PR number that parses, on an instance whose base slot is unset and
\* whose other slots are unset or hold what this environment resolves to.
C11_NotInPrStep ==
    /\ IsKokoro
    /\ last'.op = "base"
    /\ ~GerritMarked(environ)
    /\ _kokoro_ci_pr(environ) = None
    /\ self._base = UNSET
    /\ self._pr \in {UNSET, None}
    /\ self._repo_url \in {UNSET, _repo_url(environ)}
    /\ self._provider \in {UNSET, KokoroRepoProvider_github}

(* C11 as stated: every read of base in a build without Gerrit marker and   *)
(* outside a pull request raises the NotImplementedError for an unsupported *)
(* base resolution, whatever the PR-URL and commit-URL variables hold       *)
(* (both unset included); the remote client is not called and the base     *)
(* slot stays unset.                                                       *)
C11_AlwaysUnsupported ==
    [][C11_NotInPrStep =>
          /\ last'.res.kind = "UnsupportedBaseResolution"
          /\ fetches' = fetches
          /\ self'._base = UNSET]_vars

(* C11, amended: every such read of base raises, calls no remote client    *)
(* and leaves the base slot unset; which error it raises is decided by the *)
(* provider resolution that base runs first:                               *)
(*  - the repository URL starts with https://github.com/ (provider         *)
(*    github): the NotImplementedError for an unsupported base resolution; *)
(*  - the URL contains github.com without that prefix: the ValueError for  *)
(*    a malformed repository URL;                                          *)
(*  - no URL variable is set, or the URL is empty or names another host:   *)
(*    the ValueError for an undetected provider.                           *)
C11_UnsupportedOnlyWithProvider ==
    [][C11_NotInPrStep =>
          /\ ~last'.res.ok
          /\ fetches' = fetches
          /\ ~Ran("pr_info")'
          /\ self'._base = UNSET
          /\ self'._repo_url = _repo_url(environ)
          /\ last'.res.kind =
                IF self'._repo_url # None /\ Contains(self'._repo_url.v, _GITHUB_HOST)
                THEN IF Len(self'._repo_url.v) >= Len(_GITHUB_PREFIX) /\ SubSeq(self'._repo_url.v, 1, Len(_GITHUB_PREFIX)) = _GITHUB_PREFIX
                     THEN "UnsupportedBaseResolution"
                     ELSE "MalformedRepoURL"
                ELSE "ProviderUndetected"
          /\ last'.res.kind = "UnsupportedBaseResolution" <=> self'._provider = KokoroRepoProvider_github
          /\ last'.res.kind = "UnsupportedBaseResolution" => last'.res.exc = "NotImplementedError"]_vars

\* base was read on a push build that has only the commit URL: the provider
\* resolved to github and base raised the unsupported-resolution error.
C11_Witness ==
    /\ IsKokoro
    /\ last.op = "base"
    /\ ~GerritMarked(environ)
    /\ _kokoro_ci_pr(environ) = None
    /\ KOKORO_GITHUB_PULL_REQUEST_URL \notin DOMAIN environ
    /\ KOKORO_GITHUB_COMMIT_URL \in DOMAIN environ
    /\ self._provider = KokoroRepoProvider_github
    /\ last.res = Raise("NotImplementedError", "UnsupportedBaseResolution", <<>>)
    /\ fetches = <<>>
    /\ self._base = UNSET

----------------------------------------------------------------------------
(* C12: every read of pr on a Kokoro instance returns (it never raises)    *)
(* and calls no remote client; and when the pr slot was unset, the value   *)
(* returned and cached is decided by the environment of that moment:       *)
(*  - the integer value of the GitHub PR-number variable when its text     *)
(*    parses as an integer, whatever the Gerrit change-number variable     *)
(*    holds;                                                               *)
(*  - else the integer value of the Gerrit change-number variable when its *)
(*    text parses;                                                         *)
(*  - else (each of the two missing, empty or not a number) None.          *)
C12_PrIdentification ==
    [][(IsKokoro /\ last'.op = "pr") =>
          /\ last'.res.ok
          /\ fetches' = fetches
          /\ self._pr = UNSET =>
              /\ self'._pr = last'.res.val
              /\ (/\ KOKORO_GITHUB_PULL_REQUEST_NUMBER \in DOMAIN environ
                  /\ IntParses(environ[KOKORO_GITHUB_PULL_REQUEST_NUMBER])) =>
                      last'.res.val = IntVal(IntOf(environ[KOKORO_GITHUB_PULL_REQUEST_NUMBER]))
              /\ (/\ ~(/\ KOKORO_GITHUB_PULL_REQUEST_NUMBER \in DOMAIN environ
                        /\ IntParses(environ[KOKORO_GITHUB_PULL_REQUEST_NUMBER]))
                  /\ KOKORO_GERRIT_CHANGE_NUMBER \in DOMAIN environ
                  /\ IntParses(environ[KOKORO_GERRIT_CHANGE_NUMBER])) =>
                      last'.res.val = IntVal(IntOf(environ[KOKORO_GERRIT_CHANGE_NUMBER]))
              /\ (/\ ~(/\ KOKORO_GITHUB_PULL_REQUEST_NUMBER \in DOMAIN environ
                        /\ IntParses(environ[KOKORO_GITHUB_PULL_REQUEST_NUMBER]))
                  /\ ~(/\ KOKORO_GERRIT_CHANGE_NUMBER \in DOMAIN environ
                        /\ IntParses(environ[KOKORO_GERRIT_CHANGE_NUMBER]))) =>
                      last'.res.val = None]_vars

\* pr was resolved where both variables hold a number: the GitHub PR number
\* 23 won over the Gerrit change number 7.
C12_Witness ==
    /\ IsKokoro
    /\ last.op = "pr"
    /\ Ran("_kokoro_ci_pr")
    /\ KOKORO_GITHUB_PULL_REQUEST_NUMBER \in DOMAIN environ
    /\ environ[KOKORO_GITHUB_PULL_REQUEST_NUMBER] = <<"2","3">>
    /\ KOKORO_GERRIT_CHANGE_NUMBER \in DOMAIN environ
    /\ environ[KOKORO_GERRIT_CHANGE_NUMBER] = <<"7">>
    /\ last.res = Return(IntVal(23))
    /\ self._pr = IntVal(23)

----------------------------------------------------------------------------
\* The text s without its trailing /pull/<digits>, if it ends in one.
TrailingPullStripped(s) ==
    LET ends == { i \in 1..Len(s) :
                    /\ StartsWith(SubSeq(s, i, Len(s)), PULL_LITERAL)
                    /\ i + Len(PULL_LITERAL) <= Len(s)
                    /\ \A j \in (i + Len(PULL_LITERAL))..Len(s) : s[j] \in Digits }
    IN IF ends = {} THEN s ELSE SubSeq(s, 1, (CHOOSE i \in ends : TRUE) - 1)

\* The text s without its trailing /commit/<anything>, if it has one.
TrailingCommitStripped(s) ==
    IF Contains(s, COMMIT_LITERAL) THEN SubSeq(s, 1, FirstIndex(s, COMMIT_LITERAL) - 1) ELSE s

(* C13: every read of repo_url on a Kokoro instance returns (it never      *)
(* raises); and when the repo_url slot was unset, the value returned and   *)
(* cached is:                                                              *)
(*  - if the PR-URL variable is present, its text without the trailing     *)
(*    /pull/<digits>, whatever the commit-URL variable holds;              *)
(*  - else if the commit-URL variable is present, its text without the     *)
(*    trailing /commit/<anything>;                                         *)
(*  - else None, which is cached like any other value.                     *)
C13_RepoUrlDerivation ==
    [][(IsKokoro /\ last'.op = "repo_url") =>
          /\ last'.res.ok
          /\ self._repo_url = UNSET =>
              /\ self'._repo_url = last'.res.val
              /\ last'.res.val =
                    IF KOKORO_GITHUB_PULL_REQUEST_URL \in DOMAIN environ
                    THEN StrVal(TrailingPullStripped(environ[KOKORO_GITHUB_PULL_REQUEST_URL]))
                    ELSE IF KOKORO_GITHUB_COMMIT_URL \in DOMAIN environ
                    THEN StrVal(TrailingCommitStripped(environ[KOKORO_GITHUB_COMMIT_URL]))
                    ELSE None]_vars

\* repo_url was resolved from https://github.com/pull/1/pull/23 and came out
\* as https://github.com, without the repository: both /pull/<digits> were
\* removed, not only the trailing one.
C13_Witness ==
    /\ IsKokoro
    /\ last.op = "repo_url"
    /\ Ran("_repo_url")
    /\ KOKORO_GITHUB_PULL_REQUEST_URL \in DOMAIN environ
    /\ environ[KOKORO_GITHUB_PULL_REQUEST_URL] = PrUrlPullOrg
    /\ last.res = Return(StrVal(<<"h","t","t","p","s",":","/","/">> \o _GITHUB_HOST))
    /\ self._repo_url # StrVal(_GITHUB_PREFIX \o <<"p","u","l","l","/","1">>)

----------------------------------------------------------------------------
(* C14: every read of branch on a Kokoro instance returns (it never        *)
(* raises); and when the branch slot was unset, the value returned is the  *)
(* text of the Gerrit branch variable (None if it is missing) when the     *)
(* provider is gerrit, and None in every other situation, a build whose    *)
(* provider cannot be determined included.                                 *)
C14_BranchNeverFails ==
    [][(IsKokoro /\ last'.op = "branch") =>
          /\ last'.res.ok
          /\ self._branch = UNSET =>
                last'.res.val = IF self'._provider = KokoroRepoProvider_gerrit
                                THEN EnvGet(environ, KOKORO_GERRIT_BRANCH)
                                ELSE None]_vars

\* branch was read in a Kokoro build with no Gerrit marker and no URL
\* variable: it raised the undetected-provider ValueError and cached nothing.
C14_Witness ==
    /\ IsKokoro
    /\ last.op = "branch"
    /\ DOMAIN environ = { KOKORO_ENV_VAR }
    /\ last.res = Raise("ValueError", "ProviderUndetected", <<>>)
    /\ self._branch = UNSET
    /\ self._provider = UNSET

----------------------------------------------------------------------------
(* C15: in every step that reads provider on an AppVeyor instance whose    *)
(* provider slot is unset, the raw value being the text of the             *)
(* repo-provider variable, or the empty text when it is missing:           *)
(*  - a raw value that is exactly github, bitbucket, kiln, vso or gitlab   *)
(*    makes the access return the enum member of that name, which the slot *)
(*    then holds;                                                          *)
(*  - any other raw value makes the access raise the ValueError for an     *)
(*    invalid provider, carrying the raw value and the list of the five    *)
(*    accepted names, and the slot stays unset.                            *)
C15_AppVeyorProvider ==
    [][(~IsKokoro /\ last'.op = "provider" /\ self._provider = UNSET) =>
          LET raw == IF APPVEYOR_REPO_ENV \in DOMAIN environ THEN environ[APPVEYOR_REPO_ENV] ELSE <<>>
              member == CASE raw = <<"g","i","t","h","u","b">> -> "github"
                          [] raw = <<"b","i","t","b","u","c","k","e","t">> -> "bitbucket"
                          [] raw = <<"k","i","l","n">> -> "kiln"
                          [] raw = <<"v","s","o">> -> "vso"
                          [] raw = <<"g","i","t","l","a","b">> -> "gitlab"
                          [] OTHER -> "none"
          IN IF member # "none"
             THEN /\ last'.res = Return([tag |-> "AppVeyorRepoProvider", v |-> member])
                  /\ self'._provider = last'.res.val
             ELSE /\ last'.res = Raise("ValueError", "InvalidProviderValue",
                                       <<StrVal(raw), ListVal(<<"github", "bitbucket", "kiln", "vso", "gitlab">>)>>)
                  /\ self'._provider = UNSET]_vars

\* provider was read where the variable is missing: the access raised,
\* citing the empty text as the raw value, and the slot is still unset.
C15_Witness ==
    /\ ~IsKokoro
    /\ last.op = "provider"
    /\ APPVEYOR_REPO_ENV \notin DOMAIN environ
    /\ ~last.res.ok
    /\ last.res.kind = "InvalidProviderValue"
    /\ last.res.args[1] = StrVal(<<>>)
    /\ self._provider = UNSET

----------------------------------------------------------------------------
\* A step that reads provider, slug, branch or base on a Kokoro instance
\* and raises.
C16_FailedAccess ==
    /\ IsKokoro
    /\ last'.op \in {"provider", "slug", "branch", "base"}
    /\ ~last'.res.ok

(* C16 as stated: an access of provider, slug, branch or base that raises  *)
(* leaves the slot of that property unset and changes no filled slot; and  *)
(* the access of the same property that follows a failed one computes      *)
(* again (it runs a resolver or the remote call) instead of raising from   *)
(* what the instance holds.                                                *)
C16_FailureRecomputed ==
    [][/\ C16_FailedAccess =>
           /\ Slot(self', last'.op) = UNSET
           /\ \A f \in DOMAIN self : self[f] # UNSET => self'[f] = self[f]
       /\ (/\ IsKokoro
           /\ last.op \in {"provider", "slug", "branch", "base"}
           /\ ~last.res.ok
           /\ last'.op = last.op) => last'.ran # <<>>]_vars

(* C16, amended: an access of provider, slug, branch or base that raises   *)
(* leaves the slot of that property unset and changes no filled slot (the  *)
(* slots it filled on the way, repo_url, pr, provider and slug, or the     *)
(* payload, stay filled).  No exception is stored, and a later access      *)
(* runs the getter again on what the instance then holds:                  *)
(*  - an undetected provider or a malformed repository URL is always the   *)
(*    outcome of _provider_slug run in that very access, on the repo_url   *)
(*    the instance holds and the Gerrit markers of the current             *)
(*    environment;                                                         *)
(*  - a failure of the remote client is always the outcome of a call made  *)
(*    in that very access, and leaves the payload slot unset;              *)
(*  - an unsupported base resolution is raised on the cached pr (None) and *)
(*    provider (github), and a malformed payload on the cached payload:    *)
(*    a repeated access raises them again without reading the environment  *)
(*    or calling the client.                                               *)
C16_OnlySuccessCached ==
    [][C16_FailedAccess =>
          /\ Slot(self', last'.op) = UNSET
          /\ \A f \in DOMAIN self : self[f] # UNSET => self'[f] = self[f]
          /\ last'.res.kind \in {"ProviderUndetected", "MalformedRepoURL", "PRInfoUnavailable",
                                 "UnsupportedBaseResolution", "MalformedPRPayload"}
          /\ last'.res.kind \in {"ProviderUndetected", "MalformedRepoURL"} =>
              /\ Ran("_provider_slug")'
              /\ ~GerritMarked(environ)
              /\ self._provider = UNSET /\ self'._provider = UNSET
              /\ self'._repo_url # UNSET
          /\ last'.res.kind = "PRInfoUnavailable" =>
              /\ last'.op = "base"
              /\ Ran("pr_info")'
              /\ Len(fetches') = Len(fetches) + 1
              /\ ~fetches'[Len(fetches')].out.ok
              /\ self'._pr_info_cached = UNSET
          /\ last'.res.kind = "UnsupportedBaseResolution" =>
              /\ last'.op = "base"
              /\ self'._pr = None
              /\ self'._provider = KokoroRepoProvider_github
              /\ (self._pr # UNSET /\ self._provider # UNSET) => last'.ran = <<>>
          /\ last'.res.kind = "MalformedPRPayload" =>
              /\ last'.op = "base"
              /\ self'._pr_info_cached # UNSET
              /\ self._pr_info_cached # UNSET => (last'.ran = <<>> /\ fetches' = fetches)]_vars

\* base failed twice on the remote client: the second access called the
\* client again, the slots filled on the way (pr, provider, slug) are kept,
\* and the base and payload slots are still unset.
C16_Witness ==
    /\ IsKokoro
    /\ last.op = "base"
    /\ last.res.kind = "PRInfoUnavailable"
    /\ last.ran = <<"pr_info">>
    /\ Len(fetches) = 2
    /\ ~fetches[1].out.ok
    /\ self._base = UNSET
    /\ self._pr_info_cached = UNSET
    /\ self._provider = KokoroRepoProvider_github
    /\ self._pr = IntVal(23)

----------------------------------------------------------------------------
(* C17: the remote client is reached only through base in a GitHub         *)
(* pull-request build.  After every step:                                  *)
(*  - if _github.pr_info has ever been called on the instance, the pr slot *)
(*    holds an integer, the provider slot holds github, and every call was *)
(*    made with the slug and the pr the slots hold;                        *)
(*  - a step that reads active, branch, pr, in_pr, repo_url, provider or   *)
(*    slug (or AppVeyor's provider), or rewrites the environment, makes no *)
(*    call, whatever was read before it.                                   *)
C17_FetchOnlyThroughBase ==
    [][/\ fetches' # <<>> =>
           /\ IsKokoro
           /\ self'._pr # UNSET /\ self'._pr # None /\ self'._pr.tag = "int"
           /\ self'._provider = KokoroRepoProvider_github
           /\ \A i \in 1..Len(fetches') :
                 /\ fetches'[i].slug = self'._slug
                 /\ fetches'[i].pr = self'._pr
       /\ last'.op # "base" =>
           /\ fetches' = fetches
           /\ ~Ran("pr_info")'
       /\ fetches' # fetches =>
           /\ last'.op = "base"
           /\ Len(fetches') = Len(fetches) + 1]_vars

\* After base had fetched in a GitHub pull-request build, slug was read:
\* still one call, made with the cached slug and pr.
C17_Witness ==
    /\ IsKokoro
    /\ last.op = "slug"
    /\ last.res = Return(StrVal(ORG_REPO))
    /\ Len(fetches) = 1
    /\ fetches[1].slug = self._slug
    /\ fetches[1].pr = self._pr
    /\ self._pr = IntVal(23)
    /\ self._provider = KokoroRepoProvider_github

----------------------------------------------------------------------------
(* C18: every read of active on a Kokoro instance returns (it never        *)
(* raises) and calls no remote client.  When the active slot was unset,    *)
(* the value returned and cached is True if at least one name in the       *)
(* environment starts with KOKORO_ and False otherwise; when the slot was  *)
(* filled, the read returns what it holds, whatever the environment has    *)
(* become; and no step changes a filled active slot.                       *)
C18_ActiveByPrefix ==
    [][IsKokoro =>
          /\ self._active # UNSET => self'._active = self._active
          /\ last'.op = "active" =>
              /\ last'.res.ok
              /\ fetches' = fetches
              /\ last'.res.val = self'._active
              /\ self._active = UNSET =>
                    last'.res.val = BoolVal(\E key \in DOMAIN environ :
                                               /\ Len(key) >= 7
                                               /\ SubSeq(key, 1, 7) = <<"K","O","K","O","R","O","_">>)
              /\ self._active # UNSET => (last'.res.val = self._active /\ last'.ran = <<>>)]_vars

\* active was read again after the only KOKORO_ variable had been deleted:
\* it still answers True, from the slot.
C18_Witness ==
    /\ IsKokoro
    /\ last.op = "active"
    /\ last.ran = <<>>
    /\ last.res = Return(BoolVal(TRUE))
    /\ \A key \in DOMAIN environ : ~StartsWith(key, KOKORO_PREFIX)

----------------------------------------------------------------------------
\* What the access op gives on a fresh instance read by one thread.
SingleThreaded(op) ==
    IF op = "provider" THEN Kokoro_provider(Ctx(FreshKokoro), environ).res
    ELSE Kokoro_slug(Ctx(FreshKokoro), environ).res

AllIdle == \A t \in Threads : threads[t].pc = "idle"

(* C19: threads interleave provider and slug accesses on one shared Kokoro *)
(* instance in a fixed environment, between any two steps of a getter.     *)
(* Then:                                                                   *)
(*  - no access ever returns the UNSET sentinel;                           *)
(*  - every access that has finished came out (returned, or raised) as the *)
(*    same access does on a fresh instance read by a single thread;        *)
(*  - whenever no thread is inside a getter, the provider and slug slots   *)
(*    are both unset or hold together the pair that _provider_slug gives   *)
(*    in this environment.                                                 *)
C19_ThreadsAgree ==
    threads # <<>> =>
        /\ \A t \in Threads : threads[t].n > 0 =>
              /\ threads[t].done.res.ok => threads[t].done.res.val # UNSET
              /\ threads[t].done.res = SingleThreaded(threads[t].done.op)
        /\ AllIdle =>
              \/ self._provider = UNSET /\ self._slug = UNSET
              \/ /\ self._provider # UNSET /\ self._slug # UNSET
                 /\ self._repo_url # UNSET
                 /\ _provider_slug(self._repo_url, environ) = Return(<<self._provider, self._slug>>)
                 /\ \/ self._provider = KokoroRepoProvider_gerrit /\ self._slug = None
                    \/ self._provider = KokoroRepoProvider_github /\ self._slug.tag = "str"

\* One thread has stored the provider and not yet the slug, while the other
\* has already read slug in between and got the slug, not the sentinel.
C19_Witness ==
    /\ threads # <<>>
    /\ threads["t1"].pc = "store_slug"
    /\ self._provider = KokoroRepoProvider_github
    /\ threads["t2"].pc = "idle"
    /\ threads["t2"].n = 2
    /\ threads["t2"].done = Step("slug", Return(StrVal(ORG_REPO)), <<>>)

====
